---- MODULE Spec2Model ----
(***************************************************************************)
(* Model of benchmark.py: the timing decorator timeit/function_timer, the   *)
(* two Christoffel engines christoffels_reference (SymPy) and               *)
(* christoffels_symengine (SymEngine), and the driver that calls them.      *)
(*                                                                         *)
(* Symbolic expressions are exact rational functions num/den whose         *)
(* numerator and denominator are polynomials with integer coefficients     *)
(* over the atoms  s_n (coordinate symbol n), sin(s_n) and cos(s_n).        *)
(***************************************************************************)
EXTENDS Integers, Sequences, FiniteSets, TLC

(***************************************************************************)
(* Bounds of the model.                                                    *)
(***************************************************************************)
\* largest metric dimension / number of coordinate symbols explored
MaxDims == 3
\* largest exponent of a coordinate symbol in the generated metric entries
MaxPow == 2

(***************************************************************************)
(* Monomials: functions from atoms to positive exponents.                  *)
(***************************************************************************)
SymAtom(n) == <<"sym", n>>
SinAtom(n) == <<"sin", n>>
CosAtom(n) == <<"cos", n>>

MOne == [x \in {} |-> 0]

MExp(m, x) == IF x \in DOMAIN m THEN m[x] ELSE 0

MMul(a, b) == [x \in DOMAIN a \cup DOMAIN b |-> MExp(a, x) + MExp(b, x)]

\* the monomial m with the exponent of atom x lowered by one
MLower(m, x) ==
    [y \in {z \in DOMAIN m : z # x \/ m[z] > 1} |->
        IF y = x THEN m[y] - 1 ELSE m[y]]

MPow(x, e) == IF e = 0 THEN MOne ELSE [y \in {x} |-> e]

(***************************************************************************)
(* Polynomials: functions from monomials to non-zero integer coefficients  *)
(* (canonical: equal polynomials are equal values).                        *)
(***************************************************************************)
PZero == [m \in {} |-> 0]

PConst(c) == IF c = 0 THEN PZero ELSE [m \in {MOne} |-> c]

POne == PConst(1)

PTerm(c, m) == IF c = 0 THEN PZero ELSE [k \in {m} |-> c]

PCoef(p, m) == IF m \in DOMAIN p THEN p[m] ELSE 0

PAdd(p, q) ==
    [m \in {k \in DOMAIN p \cup DOMAIN q : PCoef(p, k) + PCoef(q, k) # 0} |->
        PCoef(p, m) + PCoef(q, m)]

PScale(c, p) == IF c = 0 THEN PZero ELSE [m \in DOMAIN p |-> c * p[m]]

PNeg(p) == PScale(-1, p)

PSub(p, q) == PAdd(p, PNeg(q))

RECURSIVE IntSum(_, _)
IntSum(S, f) ==
    IF S = {} THEN 0
    ELSE LET x == CHOOSE y \in S : TRUE
         IN  f[x] + IntSum(S \ {x}, f)

PMul(p, q) ==
    IF p = PZero \/ q = PZero THEN PZero
    ELSE IF p = POne THEN q
    ELSE IF q = POne THEN p
    ELSE
    LET pairs == (DOMAIN p) \X (DOMAIN q)
        prods == {MMul(pr[1], pr[2]) : pr \in pairs}
        coef  == [m \in prods |->
                    LET hit == {pr \in pairs : MMul(pr[1], pr[2]) = m}
                    IN  IntSum(hit, [pr \in hit |-> p[pr[1]] * q[pr[2]]])]
    IN  [m \in {k \in prods : coef[k] # 0} |-> coef[m]]

RECURSIVE PSum(_, _)
\* sum of the polynomials f[x], x in S
PSum(S, f) ==
    IF S = {} THEN PZero
    ELSE LET x == CHOOSE y \in S : TRUE
         IN  PAdd(f[x], PSum(S \ {x}, f))

\* d(atom)/d(symbol s): chain rule for sin and cos of a coordinate
AtomDiff(x, s) ==
    IF x[2] # s THEN PZero
    ELSE IF x[1] = "sym" THEN POne
    ELSE IF x[1] = "sin" THEN PTerm(1, MPow(CosAtom(s), 1))
    ELSE PTerm(-1, MPow(SinAtom(s), 1))

\* d(c*m)/d(symbol s): product rule over the atoms of m
TermDiff(c, m, s) ==
    PSum(DOMAIN m,
         [x \in DOMAIN m |->
            PMul(PTerm(c * m[x], MLower(m, x)), AtomDiff(x, s))])

PDiff(p, s) == PSum(DOMAIN p, [m \in DOMAIN p |-> TermDiff(p[m], m, s)])

PIsConst(p) == DOMAIN p \subseteq {MOne}

(***************************************************************************)
(* Exact rational functions num/den (den never the zero polynomial).  A    *)
(* zero numerator collapses to the canonical zero 0/1, as the kernels'     *)
(* automatic evaluation x*0 -> 0, 0+0 -> 0 does.                           *)
(***************************************************************************)
QMk(n, d) == IF n = PZero THEN [num |-> PZero, den |-> POne]
             ELSE [num |-> n, den |-> d]

QZero == QMk(PZero, POne)

QOne == QMk(POne, POne)

QAdd(a, b) ==
    IF a.num = PZero THEN QMk(b.num, b.den)
    ELSE IF b.num = PZero THEN QMk(a.num, a.den)
    ELSE IF a.den = b.den THEN QMk(PAdd(a.num, b.num), a.den)
    ELSE QMk(PAdd(PMul(a.num, b.den), PMul(b.num, a.den)), PMul(a.den, b.den))

QNeg(a) == QMk(PNeg(a.num), a.den)

QSub(a, b) == QAdd(a, QNeg(b))

QMul(a, b) == QMk(PMul(a.num, b.num), PMul(a.den, b.den))

\* a / b for b # 0
QDiv(a, b) == QMk(PMul(a.num, b.den), PMul(a.den, b.num))

\* a / 2
QHalf(a) == QMk(a.num, PScale(2, a.den))

\* exact partial derivative with respect to coordinate symbol s (quotient rule)
QDiff(a, s) ==
    IF PIsConst(a.den) THEN QMk(PDiff(a.num, s), a.den)
    ELSE QMk(PSub(PMul(PDiff(a.num, s), a.den), PMul(a.num, PDiff(a.den, s))),
             PMul(a.den, a.den))

\* mathematical equality of two rational functions
QEq(a, b) == PMul(a.num, b.den) = PMul(b.num, a.den)

(***************************************************************************)
(* Square matrices of rational functions: sequences of rows.               *)
(***************************************************************************)
\* the sequence s without its element at position p
Drop(s, p) == [x \in 1..(Len(s) - 1) |-> IF x < p THEN s[x] ELSE s[x + 1]]

Minor(M, r, c) == [x \in 1..(Len(M) - 1) |-> Drop(Drop(M, r)[x], c)]

RECURSIVE QSumTo(_, _)
\* f[1] + ... + f[n]
QSumTo(f, n) == IF n = 0 THEN QZero ELSE QAdd(QSumTo(f, n - 1), f[n])

RECURSIVE Det(_)
\* Laplace expansion along the first row
Det(M) ==
    IF Len(M) = 0 THEN QOne
    ELSE QSumTo([c \in 1..Len(M) |->
                    IF M[1][c].num = PZero THEN QZero
                    ELSE LET v == QMul(M[1][c], Det(Minor(M, 1, c)))
                         IN  IF c % 2 = 1 THEN v ELSE QNeg(v)],
                Len(M))

Cofactor(M, r, c) ==
    LET v == Det(Minor(M, r, c))
    IN  IF (r + c) % 2 = 0 THEN v ELSE QNeg(v)

IsSingular(M) == Det(M).num = PZero

\* the inverse of a non-singular matrix: transposed cofactors over the determinant
Inverse(M) ==
    LET d == Det(M)
    IN  [r \in 1..Len(M) |-> [c \in 1..Len(M) |-> QDiv(Cofactor(M, c, r), d)]]

(***************************************************************************)
(* Expression values.  kind tells the representation: "int" a Python int,  *)
(* "sympy" a SymPy expression, "symengine" a SymEngine expression.         *)
(***************************************************************************)
E(kind, q) == [kind |-> kind, num |-> q.num, den |-> q.den]

QOf(e) == [num |-> e.num, den |-> e.den]

PyInt(c) == E("int", QMk(PConst(c), POne))

\* np.zeros(shape=(d, d, d), dtype=int).tolist()
np_zeros(d) == [i \in 1..d |-> [j \in 1..d |-> [k \in 1..d |-> PyInt(0)]]]

\* Python's binary operators hand the operation to the symbolic operand
ResultKind(a, b) == IF a.kind = "int" THEN b.kind ELSE a.kind

py_add(a, b) == E(ResultKind(a, b), QAdd(QOf(a), QOf(b)))

py_sub(a, b) == E(ResultKind(a, b), QSub(QOf(a), QOf(b)))

py_mul(a, b) == E(ResultKind(a, b), QMul(QOf(a), QOf(b)))

\* a / 2 for a symbolic a
py_half(a) == E(a.kind, QHalf(QOf(a)))

(***************************************************************************)
(* The SymPy kernel: sympify, Matrix, Matrix.inv, diff.                    *)
(***************************************************************************)
sympy_S(e) == E("sympy", QOf(e))

sympy_Matrix(l) == [r \in 1..Len(l) |-> [c \in 1..Len(l[r]) |-> sympy_S(l[r][c])]]

QMat(M) == [r \in 1..Len(M) |-> [c \in 1..Len(M[r]) |-> QOf(M[r][c])]]

sympy_singular(M) == IsSingular(QMat(M))

sympy_inv(M) ==
    LET inv == Inverse(QMat(M))
    IN  [r \in 1..Len(M) |-> [c \in 1..Len(M) |-> E("sympy", inv[r][c])]]

sympy_diff(e, s) == E("sympy", QDiff(QOf(sympy_S(e)), s))

(***************************************************************************)
(* The SymEngine kernel.                                                   *)
(***************************************************************************)
symengine_sympify(e) == E("symengine", QOf(e))

symengine_Matrix(l) ==
    [r \in 1..Len(l) |-> [c \in 1..Len(l[r]) |-> symengine_sympify(l[r][c])]]

symengine_singular(M) == IsSingular(QMat(M))

symengine_inv(M) ==
    LET inv == Inverse(QMat(M))
    IN  [r \in 1..Len(M) |-> [c \in 1..Len(M) |-> E("symengine", inv[r][c])]]

symengine_diff(e, s) == E("symengine", QDiff(QOf(symengine_sympify(e)), s))

(***************************************************************************)
(* Inputs explored: coordinate symbols are numbered 1, 2, 3, ... (r,       *)
(* theta, phi, ...); a metric is a sequence of rows of expressions.        *)
(***************************************************************************)
Sym(n, e) == E("sympy", QMk(PTerm(1, MPow(SymAtom(n), e)), POne))

Sin(n, e) == E("sympy", QMk(PTerm(1, MPow(SinAtom(n), e)), POne))

\* 1 / s_n
Recip(n) == E("sympy", QMk(POne, PTerm(1, MPow(SymAtom(n), 1))))

\* sympy.symbols('r theta phi'), and its shorter and longer variants
symbols_of(L) == [x \in 1..L |-> x]

\* the same symbols in the opposite order
reversed_symbols_of(L) == [x \in 1..L |-> L + 1 - x]

\* the metric built by main: diag(1, r^2, r^2 sin(theta)^2)
Spherical ==
    << <<PyInt(1), PyInt(0), PyInt(0)>>,
       <<PyInt(0), Sym(1, 2), PyInt(0)>>,
       <<PyInt(0), PyInt(0), py_mul(Sym(1, 2), Sin(2, 2))>> >>

Palette == {PyInt(0), PyInt(1), Sym(2, 1)} \cup {Sym(1, e) : e \in 1..MaxPow}

\* every 2 x 2 metric over the palette (symmetric or not, singular or not)
Full2 == {<< <<a, b>>, <<c, d>> >> : a \in Palette, b \in Palette,
                                      c \in Palette, d \in Palette}

\* d x d diagonal metric: p at position q, 1 elsewhere (p = 1: the identity,
\* p = 0: an all-zero row)
DiagOne(d, q, p) ==
    [r \in 1..d |-> [c \in 1..d |->
        IF r # c THEN PyInt(0) ELSE IF r = q THEN p ELSE PyInt(1)]]

Identity(d) == DiagOne(d, 1, PyInt(1))

DiagMetrics == {DiagOne(d, q, p) : d \in 1..MaxDims, q \in 1..MaxDims,
                                   p \in Palette \cup {Sin(1, 1), Recip(1)}}

\* non-diagonal 3 x 3 metrics
Sample3 ==
    { << <<Sym(1, 1), PyInt(1), Sym(2, 1)>>,
         <<PyInt(1), Sym(2, 1), PyInt(0)>>,
         <<Sym(2, 1), PyInt(0), PyInt(1)>> >>,
      << <<PyInt(1), Sym(1, 1), PyInt(0)>>,
         <<Sym(1, 1), Sin(2, 1), PyInt(0)>>,
         <<PyInt(0), PyInt(0), Sym(1, 2)>> >>,
      << <<Sym(1, 1), Sym(1, 1), PyInt(1)>>,
         <<Sym(2, 1), Sym(2, 1), PyInt(1)>>,
         <<PyInt(1), PyInt(1), PyInt(0)>> >> }

Metrics == Full2 \cup DiagMetrics \cup Sample3 \cup {Spherical}

\* metrics also called with a wrong number of symbols
MismatchMetrics == DiagMetrics \cup Sample3 \cup {Spherical}

Inputs ==
    {[metric |-> m, syms |-> symbols_of(L)] :
        <<m, L>> \in {x \in Metrics \X (0..MaxDims) :
                        x[2] = Len(x[1]) \/ x[1] \in MismatchMetrics}}
    \cup {[metric |-> m, syms |-> reversed_symbols_of(Len(m))] :
            m \in MismatchMetrics}

Engines == {"christoffels_reference", "christoffels_symengine"}

\* the two orders in which a driver can call the engines
Orders == { <<"christoffels_reference", "christoffels_symengine">>,
            <<"christoffels_symengine", "christoffels_reference">> }

NoKwargs == [x \in {} |-> 0]

\* the ways a caller can pass (list2d, syms)
CallForms(m, sy) ==
    { [args |-> <<m, sy>>, kwargs |-> NoKwargs],
      [args |-> <<>>, kwargs |-> [list2d |-> m, syms |-> sy]] }

(***************************************************************************)
(* State.                                                                  *)
(***************************************************************************)
VARIABLES
    metric, symbols, order,   \* the driver's metric, syms and call order
    callNo,                   \* which call of the driver is next or running
    ch,                       \* the driver's ch_reference and ch_symengine
    pc,                       \* where control is
    exc,                      \* the exception in flight ("" if none)
    stdout,                   \* the functions whose runtime was printed
    func, args, kwargs, value,                   \* function_timer's frame
    list2d, syms, dims, christlist, mat_inv, t,  \* the engine's frame
    invocations,              \* calls of func made by the running wrapper
    inversions,               \* mat.inv() calls made by the running engine
    assigned                  \* index triples assigned by the running engine

driver == <<metric, symbols, order>>

timer == <<func, args, kwargs, value>>

engine == <<list2d, syms, dims, christlist, mat_inv, t>>

vars == <<metric, symbols, order, callNo, ch, pc, exc, stdout,
          func, args, kwargs, value,
          list2d, syms, dims, christlist, mat_inv, t,
          invocations, inversions, assigned>>

Unset == [set |-> FALSE, val |-> <<>>]

Init ==
    /\ \E inp \in Inputs, ord \in Orders :
          /\ metric = inp.metric
          /\ symbols = inp.syms
          /\ order = ord
    /\ callNo = 1
    /\ ch = [e \in Engines |-> Unset]
    /\ pc = "main"
    /\ exc = ""
    /\ stdout = <<>>
    /\ func = ""
    /\ args = <<>>
    /\ kwargs = NoKwargs
    /\ value = <<>>
    /\ list2d = <<>>
    /\ syms = <<>>
    /\ dims = 0
    /\ christlist = <<>>
    /\ mat_inv = <<>>
    /\ t = 0
    /\ invocations = 0
    /\ inversions = 0
    /\ assigned = <<>>

\* the engine's locals, dropped when its frame is left
EngineFrameDropped ==
    /\ list2d' = <<>>
    /\ syms' = <<>>
    /\ dims' = 0
    /\ christlist' = <<>>
    /\ mat_inv' = <<>>
    /\ t' = 0

TimerFrameDropped ==
    /\ func' = ""
    /\ args' = <<>>
    /\ kwargs' = NoKwargs
    /\ value' = <<>>

(***************************************************************************)
(* main: ch_x = christoffels_x(metric, syms)                               *)
(***************************************************************************)
main_call ==
    /\ pc = "main"
    /\ callNo <= Len(order)
    /\ \E form \in CallForms(metric, symbols) :
          /\ args' = form.args
          /\ kwargs' = form.kwargs
    /\ func' = order[callNo]
    /\ invocations' = 0
    /\ pc' = "timer_start"
    /\ UNCHANGED <<driver, callNo, ch, exc, stdout, value, engine,
                   inversions, assigned>>

main_end ==
    /\ pc = "main"
    /\ callNo > Len(order)
    /\ pc' = "exit"
    /\ UNCHANGED <<driver, callNo, ch, exc, stdout, timer, engine,
                   invocations, inversions, assigned>>

(***************************************************************************)
(* function_timer                                                          *)
(***************************************************************************)
\* parameter binding of func(*args, **kwargs) for func(list2d, syms)
Bind(a, kw, pos, name) == IF Len(a) >= pos THEN a[pos] ELSE kw[name]

\* start = time.time(); value = func(*args, **kwargs)  -- the call is made
function_timer_call ==
    /\ pc = "timer_start"
    /\ list2d' = Bind(args, kwargs, 1, "list2d")
    /\ syms' = Bind(args, kwargs, 2, "syms")
    /\ invocations' = invocations + 1
    /\ inversions' = 0
    /\ assigned' = <<>>
    /\ pc' = "setup"
    /\ UNCHANGED <<driver, callNo, ch, exc, stdout, timer,
                   dims, christlist, mat_inv, t>>

\* faulty variant of function_timer_return: the wrapper forgets to return value
function_timer_return_nothing ==
    /\ pc = "timer_end"
    /\ stdout' = Append(stdout, func)
    /\ ch' = [ch EXCEPT ![func] = [set |-> TRUE, val |-> <<>>]]
    /\ callNo' = callNo + 1
    /\ TimerFrameDropped
    /\ pc' = "main"
    /\ UNCHANGED <<driver, exc, engine, invocations, inversions, assigned>>

\* end = time.time(); print(...); return value  -- and main stores the result
function_timer_return ==
    /\ pc = "timer_end"
    /\ stdout' = Append(stdout, func)
    /\ ch' = [ch EXCEPT ![func] = [set |-> TRUE, val |-> value]]
    /\ callNo' = callNo + 1
    /\ TimerFrameDropped
    /\ pc' = "main"
    /\ UNCHANGED <<driver, exc, engine, invocations, inversions, assigned>>

\* func raised at line 28: function_timer has no handler, nothing is printed
function_timer_propagate ==
    /\ pc = "unwind_timer"
    /\ TimerFrameDropped
    /\ pc' = "unwind_main"
    /\ UNCHANGED <<driver, callNo, ch, exc, stdout, engine,
                   invocations, inversions, assigned>>

\* main has no handler either: the program ends with the exception
main_propagate ==
    /\ pc = "unwind_main"
    /\ pc' = "crashed"
    /\ UNCHANGED <<driver, callNo, ch, exc, stdout, timer, engine,
                   invocations, inversions, assigned>>

\* an exception leaves the engine: its frame is dropped, nothing is returned
Raise(name) ==
    /\ exc' = name
    /\ EngineFrameDropped
    /\ pc' = "unwind_timer"
    /\ UNCHANGED <<driver, callNo, ch, stdout, timer,
                   invocations, inversions, assigned>>

\* subscripts of an n-th summand go out of range of the md x md matrices
OutOfRange(md, i, j, k, n) == i >= md \/ j >= md \/ k >= md \/ n >= md

(***************************************************************************)
(* christoffels_reference                                                 *)
(***************************************************************************)
\* k = t % dims
ref_k(tt, d) == tt % d

\* faulty variant of ref_j: the division by dims is left out
ref_j_undivided(tt, d) == tt % d

\* j = (int(t / dims)) % (dims)
ref_j(tt, d) == (tt \div d) % d

\* i = (int(t / (dims ** 2))) % (dims)
ref_i(tt, d) == (tt \div (d ^ 2)) % d

\* faulty variant of ref_term: the third derivative is added instead of subtracted
ref_term_plus(i, j, k, n) ==
    py_mul(py_half(mat_inv[i + 1][n + 1]),
           py_add(py_add(sympy_diff(list2d[n + 1][j + 1], syms[k + 1]),
                         sympy_diff(list2d[n + 1][k + 1], syms[j + 1])),
                  sympy_diff(list2d[j + 1][k + 1], syms[n + 1])))

\* (mat_inv[i, n] / 2) * (diff(list2d[n][j], syms[k])
\*      + diff(list2d[n][k], syms[j]) - diff(list2d[j][k], syms[n]))
ref_term(i, j, k, n) ==
    py_mul(py_half(mat_inv[i + 1][n + 1]),
           py_sub(py_add(sympy_diff(list2d[n + 1][j + 1], syms[k + 1]),
                         sympy_diff(list2d[n + 1][k + 1], syms[j + 1])),
                  sympy_diff(list2d[j + 1][k + 1], syms[n + 1])))

RECURSIVE ref_temp_from_one(_, _, _, _)
\* faulty variant of ref_temp: the accumulator starts at 1
ref_temp_from_one(i, j, k, n) ==
    IF n = 0 THEN PyInt(1)
    ELSE py_add(ref_temp_from_one(i, j, k, n - 1), ref_term(i, j, k, n - 1))

RECURSIVE ref_temp(_, _, _, _)
\* temp after the first n rounds of  temp = 0; for n in range(dims): temp += ...
ref_temp(i, j, k, n) ==
    IF n = 0 THEN PyInt(0)
    ELSE py_add(ref_temp(i, j, k, n - 1), ref_term(i, j, k, n - 1))

\* dims = len(syms); christlist = np.zeros(...).tolist()
christoffels_reference_setup ==
    /\ pc = "setup"
    /\ func = "christoffels_reference"
    /\ dims' = Len(syms)
    /\ christlist' = np_zeros(Len(syms))
    /\ pc' = "invert"
    /\ UNCHANGED <<driver, callNo, ch, exc, stdout, timer, list2d, syms,
                   mat_inv, t, invocations, inversions, assigned>>

\* mat = sympy.Matrix(list2d); mat_inv = mat.inv()
christoffels_reference_invert ==
    /\ pc = "invert"
    /\ func = "christoffels_reference"
    /\ LET mat == sympy_Matrix(list2d)
       IN  IF sympy_singular(mat)
           THEN Raise("NonInvertibleMatrixError")
           ELSE /\ mat_inv' = sympy_inv(mat)
                /\ inversions' = inversions + 1
                /\ t' = 0
                /\ pc' = "loop"
                /\ UNCHANGED <<driver, callNo, ch, exc, stdout, timer, list2d,
                               syms, dims, christlist, invocations, assigned>>

\* faulty variant of christoffels_reference_loop: the metric is inverted in every round
christoffels_reference_loop_reinverting ==
    /\ pc = "loop"
    /\ func = "christoffels_reference"
    /\ t < dims ^ 3
    /\ LET k == ref_k(t, dims)
           j == ref_j(t, dims)
           i == ref_i(t, dims)
       IN  IF \E n \in 0..(dims - 1) : OutOfRange(Len(list2d), i, j, k, n)
           THEN Raise("IndexError")
           ELSE /\ mat_inv' = sympy_inv(sympy_Matrix(list2d))
                /\ inversions' = inversions + 1
                /\ christlist' =
                      [christlist EXCEPT ![i + 1][j + 1][k + 1] =
                            ref_temp(i, j, k, dims)]
                /\ assigned' = Append(assigned, <<i, j, k>>)
                /\ t' = t + 1
                /\ UNCHANGED <<driver, callNo, ch, pc, exc, stdout, timer,
                               list2d, syms, dims, invocations>>

\* one round of  for t in _counterlist
christoffels_reference_loop ==
    /\ pc = "loop"
    /\ func = "christoffels_reference"
    /\ t < dims ^ 3
    /\ LET k == ref_k(t, dims)
           j == ref_j(t, dims)
           i == ref_i(t, dims)
       IN  IF \E n \in 0..(dims - 1) : OutOfRange(Len(list2d), i, j, k, n)
           THEN Raise("IndexError")
           ELSE /\ christlist' =
                      [christlist EXCEPT ![i + 1][j + 1][k + 1] =
                            ref_temp(i, j, k, dims)]
                /\ assigned' = Append(assigned, <<i, j, k>>)
                /\ t' = t + 1
                /\ UNCHANGED <<driver, callNo, ch, pc, exc, stdout, timer,
                               list2d, syms, dims, mat_inv, invocations,
                               inversions>>

\* return christlist
christoffels_reference_return ==
    /\ pc = "loop"
    /\ func = "christoffels_reference"
    /\ t = dims ^ 3
    /\ value' = christlist
    /\ EngineFrameDropped
    /\ pc' = "timer_end"
    /\ UNCHANGED <<driver, callNo, ch, exc, stdout, func, args, kwargs,
                   invocations, inversions, assigned>>

(***************************************************************************)
(* christoffels_symengine                                                 *)
(***************************************************************************)
\* k = t % dims
se_k(tt, d) == tt % d

\* j = (int(t / dims)) % (dims)
se_j(tt, d) == (tt \div d) % d

\* i = (int(t / (dims ** 2))) % (dims)
se_i(tt, d) == (tt \div (d ^ 2)) % d

\* faulty variant of se_term: the derivative of metric[n][k] is left out
se_term_two_derivatives(i, j, k, n) ==
    py_mul(py_half(mat_inv[i + 1][n + 1]),
           py_sub(symengine_diff(list2d[n + 1][j + 1], syms[k + 1]),
                  symengine_diff(list2d[j + 1][k + 1], syms[n + 1])))

\* faulty variant of se_term: the division by 2 is left out
se_term_not_halved(i, j, k, n) ==
    py_mul(mat_inv[i + 1][n + 1],
           py_sub(py_add(symengine_diff(list2d[n + 1][j + 1], syms[k + 1]),
                         symengine_diff(list2d[n + 1][k + 1], syms[j + 1])),
                  symengine_diff(list2d[j + 1][k + 1], syms[n + 1])))

\* faulty variant of se_term: the last derivative is taken along syms[k]
se_term_wrong_symbol(i, j, k, n) ==
    py_mul(py_half(mat_inv[i + 1][n + 1]),
           py_sub(py_add(symengine_diff(list2d[n + 1][j + 1], syms[k + 1]),
                         symengine_diff(list2d[n + 1][k + 1], syms[j + 1])),
                  symengine_diff(list2d[j + 1][k + 1], syms[k + 1])))

\* (mat_inv[i, n] / 2) * (diff(list2d[n][j], syms[k])
\*      + diff(list2d[n][k], syms[j]) - diff(list2d[j][k], syms[n]))
se_term(i, j, k, n) ==
    py_mul(py_half(mat_inv[i + 1][n + 1]),
           py_sub(py_add(symengine_diff(list2d[n + 1][j + 1], syms[k + 1]),
                         symengine_diff(list2d[n + 1][k + 1], syms[j + 1])),
                  symengine_diff(list2d[j + 1][k + 1], syms[n + 1])))

RECURSIVE se_temp(_, _, _, _)
\* temp after the first n rounds of  temp = 0; for n in range(dims): temp += ...
se_temp(i, j, k, n) ==
    IF n = 0 THEN PyInt(0)
    ELSE py_add(se_temp(i, j, k, n - 1), se_term(i, j, k, n - 1))

\* dims = len(syms); christlist = np.zeros(...).tolist()
christoffels_symengine_setup ==
    /\ pc = "setup"
    /\ func = "christoffels_symengine"
    /\ dims' = Len(syms)
    /\ christlist' = np_zeros(Len(syms))
    /\ pc' = "invert"
    /\ UNCHANGED <<driver, callNo, ch, exc, stdout, timer, list2d, syms,
                   mat_inv, t, invocations, inversions, assigned>>

\* faulty variant of christoffels_symengine_invert: a failed inversion is swallowed
\* and the zero tensor returned
christoffels_symengine_invert_swallowed ==
    /\ pc = "invert"
    /\ func = "christoffels_symengine"
    /\ LET mat == symengine_Matrix(list2d)
       IN  IF symengine_singular(mat)
           THEN /\ value' = christlist
                /\ EngineFrameDropped
                /\ pc' = "timer_end"
                /\ UNCHANGED <<driver, callNo, ch, exc, stdout, func, args,
                               kwargs, invocations, inversions, assigned>>
           ELSE /\ mat_inv' = symengine_inv(mat)
                /\ inversions' = inversions + 1
                /\ t' = 0
                /\ pc' = "loop"
                /\ UNCHANGED <<driver, callNo, ch, exc, stdout, timer, list2d,
                               syms, dims, christlist, invocations, assigned>>

\* mat = symengine.Matrix(list2d); mat_inv = mat.inv()
christoffels_symengine_invert ==
    /\ pc = "invert"
    /\ func = "christoffels_symengine"
    /\ LET mat == symengine_Matrix(list2d)
       IN  IF symengine_singular(mat)
           THEN Raise("RuntimeError")
           ELSE /\ mat_inv' = symengine_inv(mat)
                /\ inversions' = inversions + 1
                /\ t' = 0
                /\ pc' = "loop"
                /\ UNCHANGED <<driver, callNo, ch, exc, stdout, timer, list2d,
                               syms, dims, christlist, invocations, assigned>>

\* one round of  for t in _counterlist
christoffels_symengine_loop ==
    /\ pc = "loop"
    /\ func = "christoffels_symengine"
    /\ t < dims ^ 3
    /\ LET k == se_k(t, dims)
           j == se_j(t, dims)
           i == se_i(t, dims)
       IN  IF \E n \in 0..(dims - 1) : OutOfRange(Len(list2d), i, j, k, n)
           THEN Raise("IndexError")
           ELSE /\ christlist' =
                      [christlist EXCEPT ![i + 1][j + 1][k + 1] =
                            sympy_S(se_temp(i, j, k, dims))]
                /\ assigned' = Append(assigned, <<i, j, k>>)
                /\ t' = t + 1
                /\ UNCHANGED <<driver, callNo, ch, pc, exc, stdout, timer,
                               list2d, syms, dims, mat_inv, invocations,
                               inversions>>

\* return christlist
christoffels_symengine_return ==
    /\ pc = "loop"
    /\ func = "christoffels_symengine"
    /\ t = dims ^ 3
    /\ value' = christlist
    /\ EngineFrameDropped
    /\ pc' = "timer_end"
    /\ UNCHANGED <<driver, callNo, ch, exc, stdout, func, args, kwargs,
                   invocations, inversions, assigned>>

Next ==
    \/ main_call
    \/ main_end
    \/ main_propagate
    \/ function_timer_call
    \/ function_timer_return
    \/ function_timer_propagate
    \/ christoffels_reference_setup
    \/ christoffels_reference_invert
    \/ christoffels_reference_loop
    \/ christoffels_reference_return
    \/ christoffels_symengine_setup
    \/ christoffels_symengine_invert
    \/ christoffels_symengine_loop
    \/ christoffels_symengine_return

Spec == Init /\ [][Next]_vars

(***************************************************************************)
(* Properties.  Index triples in the statements are 0-based as in the      *)
(* program; sequences are 1-based.                                         *)
(***************************************************************************)
\* the call in progress was made with as many symbols as the metric has rows
ShapesAgree == Len(symbols) = Len(metric)

\* an engine has returned its tensor (held in value) to function_timer
Returned == pc = "timer_end"

Range(d) == 0..(d - 1)

\* X * g is the identity matrix
IsInverseOf(X, g) ==
    \A r \in 1..Len(g) : \A c \in 1..Len(g) :
        QEq(QSumTo([n \in 1..Len(g) |-> QMul(X[r][n], g[n][c])], Len(g)),
            IF r = c THEN QOne ELSE QZero)

\* the right-hand side of the Christoffel formula at (i, j, k), 1-based
Gamma(g, ginv, sy, i, j, k) ==
    QSumTo([n \in 1..Len(sy) |->
              QMul(QHalf(ginv[i][n]),
                   QSub(QAdd(QDiff(g[n][j], sy[k]), QDiff(g[n][k], sy[j])),
                        QDiff(g[j][k], sy[n])))],
           Len(sy))

\* C1: for a dims x dims invertible metric and dims symbols, every entry
\* (i, j, k) of the tensor an engine returns equals
\* sum_n (inverse_metric[i][n] / 2) * (d metric[n][j]/d symbols[k]
\*   + d metric[n][k]/d symbols[j] - d metric[j][k]/d symbols[n]),
\* inverse_metric being the inverse of the supplied metric.
C1_FormulaHolds ==
    (Returned /\ ShapesAgree) =>
        LET g == QMat(metric)
            ginv == Inverse(g)
            d == Len(symbols)
        IN  /\ IsInverseOf(ginv, g)
            /\ Len(value) = d
            /\ \A i \in 1..d : \A j \in 1..d : \A k \in 1..d :
                  QEq(QOf(value[i][j][k]), Gamma(g, ginv, symbols, i, j, k))

\* both engines have returned for a non-diagonal 3 x 3 metric, with a
\* non-zero entry in the tensor
C1_Witness ==
    /\ Returned
    /\ ShapesAgree
    /\ metric \in Sample3
    /\ ch[order[1]].set
    /\ \E i \in 1..3 : \E j \in 1..3 : \E k \in 1..3 :
          value[i][j][k].num # PZero

IsSymmetric(m) ==
    \A r \in 1..Len(m) : \A c \in 1..Len(m) : QOf(m[r][c]) = QOf(m[c][r])

\* C2: for a square, symmetric, invertible metric with len(symbols) = dims,
\* the returned tensor has Gamma[i][j][k] = Gamma[i][k][j] for all i, j, k.
C2_Symmetry ==
    (Returned /\ ShapesAgree /\ IsSymmetric(metric)) =>
        \A i \in 1..Len(value) : \A j \in 1..Len(value) : \A k \in 1..Len(value) :
            value[i][j][k] = value[i][k][j]

\* a symmetric non-diagonal metric whose tensor has a non-zero entry off the
\* j = k diagonal
C2_Witness ==
    /\ Returned
    /\ ShapesAgree
    /\ IsSymmetric(metric)
    /\ \E i \in 1..Len(value) : \E j \in 1..Len(value) : \E k \in 1..Len(value) :
          /\ j # k
          /\ metric[j][k].num # PZero
          /\ value[i][j][k].num # PZero

\* C3 (as claimed): with len(symbols) different from the metric's dimension
\* the call fails with a shape-mismatch error before any inversion or
\* differentiation, and no tensor is returned.
C3_MismatchRejected ==
    (~ShapesAgree) =>
        /\ inversions = 0
        /\ assigned = <<>>
        /\ pc \notin {"loop", "timer_end"}
        /\ exc \in {"", "ShapeMismatchError"}
        /\ \A e \in Engines : ~ch[e].set

\* C4: for identical (metric, symbols) the two engines return tensors of the
\* same shape with pairwise mathematically equal entries, whichever engine
\* ran first.
C4_BackendsAgree ==
    (ch["christoffels_reference"].set /\ ch["christoffels_symengine"].set) =>
        LET a == ch["christoffels_reference"].val
            b == ch["christoffels_symengine"].val
        IN  /\ Len(a) = Len(b)
            /\ \A i \in 1..Len(a) :
                  /\ Len(a[i]) = Len(b[i])
                  /\ \A j \in 1..Len(a[i]) :
                        /\ Len(a[i][j]) = Len(b[i][j])
                        /\ \A k \in 1..Len(a[i][j]) :
                              QEq(QOf(a[i][j][k]), QOf(b[i][j][k]))

\* symengine ran first, then the reference, on a non-diagonal 3 x 3 metric
C4_Witness ==
    /\ ch["christoffels_reference"].set
    /\ ch["christoffels_symengine"].set
    /\ order[1] = "christoffels_symengine"
    /\ metric \in Sample3
    /\ ShapesAgree
    /\ \E i \in 1..3 : \E j \in 1..3 : \E k \in 1..3 :
          ch["christoffels_reference"].val[i][j][k].num # PZero

HasZeroRow(m) == \E r \in 1..Len(m) : \A c \in 1..Len(m) : m[r][c].num = PZero

SingularMetric == HasZeroRow(metric) \/ IsSingular(QMat(metric))

SingularErrors == {"NonInvertibleMatrixError", "RuntimeError"}

\* C5: with a singular metric (for example one with an all-zero row) the
\* engine call ends in the singular-metric error of the inversion step: no
\* entry is computed, no tensor is returned, and the error passes through
\* function_timer to the caller unchanged.
C5_SingularRejected ==
    /\ [](SingularMetric =>
            /\ pc \notin {"loop", "timer_end", "exit"}
            /\ assigned = <<>>
            /\ inversions = 0
            /\ stdout = <<>>
            /\ \A e \in Engines : ~ch[e].set
            /\ exc \in SingularErrors \cup {""}
            /\ (pc \in {"unwind_timer", "unwind_main", "crashed"}
                    => exc \in SingularErrors))
    /\ [][(SingularMetric /\ pc = "invert") =>
             (pc' = "unwind_timer" /\ exc' \in SingularErrors)]_vars
    /\ [][(SingularMetric /\ pc = "unwind_timer") =>
             (pc' = "unwind_main" /\ exc' = exc)]_vars
    /\ [][(SingularMetric /\ pc = "unwind_main") =>
             (pc' = "crashed" /\ exc' = exc)]_vars

\* the singular-metric error of symengine's inversion has reached the caller,
\* for a metric with an all-zero row
C5_Witness ==
    /\ HasZeroRow(metric)
    /\ ShapesAgree
    /\ Len(metric) = 3
    /\ order[1] = "christoffels_symengine"
    /\ pc = "crashed"
    /\ exc = "RuntimeError"

\* C6: for the identity metric of any dimension dims >= 1 with dims symbols,
\* every one of the dims^3 entries of the returned tensor is exactly zero.
C6_FlatSpaceZero ==
    (Returned /\ ShapesAgree /\ Len(metric) >= 1
        /\ QMat(metric) = QMat(Identity(Len(metric)))) =>
        LET d == Len(metric)
        IN  /\ Len(value) = d
            /\ \A i \in 1..d :
                  /\ Len(value[i]) = d
                  /\ \A j \in 1..d :
                        /\ Len(value[i][j]) = d
                        /\ \A k \in 1..d : QOf(value[i][j][k]) = QZero

\* the largest identity metric explored has gone through an engine
C6_Witness ==
    /\ Returned
    /\ ShapesAgree
    /\ Len(metric) = MaxDims
    /\ metric = Identity(MaxDims)
    /\ Len(value) = MaxDims

InEngine == pc \in {"setup", "invert", "loop"}

\* C7: function_timer invokes the wrapped function exactly once with the
\* caller's positional and keyword arguments, returns the value it returns
\* unchanged, and lets an error it raises propagate uncaught.
C7_TimerTransparent ==
    /\ []((InEngine \/ pc \in {"timer_end", "unwind_timer"}) => invocations = 1)
    /\ [](InEngine => (list2d = metric /\ syms = symbols))
    /\ [][pc = "timer_start" =>
             (args' = args /\ kwargs' = kwargs
              /\ list2d' = metric /\ syms' = symbols)]_vars
    /\ [][pc = "timer_end" =>
             (ch'[func] = [set |-> TRUE, val |-> value] /\ pc' = "main")]_vars
    /\ [][pc = "unwind_timer" =>
             (pc' = "unwind_main" /\ exc' = exc /\ ch' = ch
              /\ stdout' = stdout)]_vars

\* the function, called once with keyword arguments, has handed a non-empty
\* tensor to function_timer, which is about to return it
C7_Witness ==
    /\ pc = "timer_end"
    /\ args = <<>>
    /\ DOMAIN kwargs = {"list2d", "syms"}
    /\ invocations = 1
    /\ Len(value) = 2
    /\ \E i \in 1..2 : \E j \in 1..2 : \E k \in 1..2 :
          value[i][j][k].num # PZero

\* closed-form Christoffel symbols of diag(1, r^2, r^2 sin(theta)^2), 0-based
SphericalGamma(i, j, k) ==
    LET r == QOf(Sym(1, 1))
        sin == QOf(Sin(2, 1))
        cos == QMk(PTerm(1, MPow(CosAtom(2), 1)), POne)
    IN  IF <<i, j, k>> = <<0, 1, 1>> THEN QNeg(r)
        ELSE IF <<i, j, k>> \in {<<1, 0, 1>>, <<1, 1, 0>>} THEN QDiv(QOne, r)
        ELSE IF <<i, j, k>> = <<0, 2, 2>> THEN QNeg(QMul(r, QMul(sin, sin)))
        ELSE IF <<i, j, k>> \in {<<2, 0, 2>>, <<2, 2, 0>>} THEN QDiv(QOne, r)
        ELSE IF <<i, j, k>> = <<1, 2, 2>> THEN QNeg(QMul(sin, cos))
        ELSE IF <<i, j, k>> \in {<<2, 1, 2>>, <<2, 2, 1>>} THEN QDiv(cos, sin)
        ELSE QZero

\* C8: for the spherical metric built by main, with (r, theta, phi), each
\* engine returns Gamma[0][1][1] = -r, Gamma[1][0][1] = Gamma[1][1][0] = 1/r,
\* Gamma[0][2][2] = -r sin^2(theta), Gamma[2][0][2] = Gamma[2][2][0] = 1/r,
\* Gamma[1][2][2] = -sin(theta) cos(theta),
\* Gamma[2][1][2] = Gamma[2][2][1] = cos(theta)/sin(theta), and zero in the
\* 18 other entries.
C8_SphericalClosedForm ==
    (Returned /\ metric = Spherical /\ symbols = symbols_of(3)) =>
        /\ Len(value) = 3
        /\ \A i \in Range(3) : \A j \in Range(3) : \A k \in Range(3) :
              /\ QEq(QOf(value[i + 1][j + 1][k + 1]), SphericalGamma(i, j, k))
              /\ SphericalGamma(i, j, k) = QZero
                    => QOf(value[i + 1][j + 1][k + 1]) = QZero
        /\ Cardinality({x \in Range(3) \X Range(3) \X Range(3) :
                            QOf(value[x[1] + 1][x[2] + 1][x[3] + 1]) = QZero}) = 18

\* the second engine called has returned for the spherical metric
C8_Witness ==
    /\ Returned
    /\ metric = Spherical
    /\ symbols = symbols_of(3)
    /\ callNo = 2
    /\ value[3][2][3].num # PZero

\* how often the triple x was assigned
TimesAssigned(x) == Cardinality({p \in 1..Len(assigned) : assigned[p] = x})

\* C9: in an engine call with dims = len(symbols) >= 1 the loop over
\* t in [0, dims^3), k = t % dims, j = (t / dims) % dims,
\* i = (t / dims^2) % dims, visits every triple of [0, dims)^3 exactly once,
\* so on normal return every entry has been assigned exactly once and none
\* holds the placeholder zero of the allocation.
C9_EveryTripleOnce ==
    /\ \A p \in 1..Len(assigned) :
          assigned[p] = << ((p - 1) \div (Len(symbols) ^ 2)) % Len(symbols),
                           ((p - 1) \div Len(symbols)) % Len(symbols),
                           (p - 1) % Len(symbols) >>
    /\ (Returned /\ Len(symbols) >= 1) =>
          LET d == Len(symbols)
          IN  /\ Len(assigned) = d ^ 3
              /\ Len(value) = d
              /\ \A i \in Range(d) : \A j \in Range(d) : \A k \in Range(d) :
                    /\ TimesAssigned(<<i, j, k>>) = 1
                    /\ value[i + 1][j + 1][k + 1].kind # "int"

\* an engine has returned after all dims^3 rounds for the largest dims
C9_Witness ==
    /\ Returned
    /\ Len(symbols) = MaxDims
    /\ Len(assigned) = MaxDims ^ 3
    /\ \E i \in 1..MaxDims : \E j \in 1..MaxDims : \E k \in 1..MaxDims :
          value[i][j][k].num # PZero

\* C10: in every engine call the metric is inverted exactly once, before the
\* first tensor entry is computed, and that inverse is the one read in every
\* round of the loop: it is never recomputed or replaced.
C10_InverseOnce ==
    /\ [](inversions <= 1)
    /\ [](pc \in {"setup", "invert"} => (inversions = 0 /\ assigned = <<>>))
    /\ [](pc = "loop" => inversions = 1)
    /\ []((Returned \/ assigned # <<>>) => inversions = 1)
    /\ [][pc = "invert" => assigned' = <<>>]_vars
    /\ [][pc = "loop" =>
             (inversions' = inversions /\ (pc' = "loop" => mat_inv' = mat_inv))]_vars

\* the loop is under way on a non-diagonal metric after its single inversion
C10_Witness ==
    /\ pc = "loop"
    /\ inversions = 1
    /\ metric \in Sample3
    /\ Len(assigned) = 26
    /\ mat_inv[1][2].num # PZero

====
